---- MODULE Spec2Model ----
(***************************************************************************)
(* A model of the BIT interpreter of src/Main.cpp: the parser's assembly   *)
(* of a program (parse_code, parse_assignment, parse_goto), the memory and *)
(* the jump register, the evaluation of expressions and the line loop of   *)
(* CodeNode::run.                                                          *)
(*                                                                         *)
(* The program text is given keyword by keyword already grouped: a text is *)
(* a sequence of lines, each with its line number, its instruction and its *)
(* goto clause as written.  An expression is written as the tree the       *)
(* grammar gives it, which fixes its keywords.                             *)
(*                                                                         *)
(* The scanner below the parser (check, consume, parse_bit, parse_bits) is *)
(* modelled on the characters of an input string, with the cursor and the  *)
(* 32-bit int the bits are folded into.                                    *)
(***************************************************************************)
EXTENDS Integers, Sequences, FiniteSets, TLC

VARIABLES
    text,              \* the program text handed to parse()
    code,              \* the CodeNode parse_code() built: lines, first_line_number
    pc,                \* where main() is: parse, run, loop, done, parse_error, runtime_error
    line,              \* CodeNode::run's local: the number of the line last executed
    next_line_number,  \* CodeNode::run's local of that name
    memory,            \* map<int, Value> memory
    jump_register,     \* int jump_register
    output,            \* the bits print_bit() wrote, in order
    steps,             \* how many instructions have been run
    input,             \* string* input: the characters the scanner reads
    position,          \* int position: the scanner's cursor, from 0
    scanned            \* the last call of the scanner and what it returned

\* The scanner's variables; they rest while a text given by keywords is
\* parsed and run.
scanner == <<input, position, scanned>>

vars == <<text, code, pc, line, next_line_number, memory, jump_register, output, steps,
          input, position, scanned>>

(***************************************************************************)
(* Bounds of the model.                                                    *)
(***************************************************************************)
\* Line numbers of a text, and the targets of its gotos, are 0..MaxLineNumber.
MaxLineNumber == 1
\* Ordinary memory addresses the claims quantify over are 0..MaxAddress.
MaxAddress == 2
\* Bit-string constants the claims quantify over are 0..MaxConstant.
MaxConstant == 3
\* At most MaxSteps instructions are run (a BIT program may loop for ever).
MaxSteps == 4

(***************************************************************************)
(* enum ValueType, struct Value                                            *)
(***************************************************************************)
UNDEFINED == 0
BIT == 1
ADDRESS_OF_A_BIT == 2

Value(v, t) == [value |-> v, type |-> t]

jump_register_address == -1

\* A null pointer (LineNode::go, Expression1Node::right, ...).
NULL == [node |-> "NULL"]

(***************************************************************************)
(* int arithmetic: & and ~ on two's complement integers.  The values of    *)
(* the model stay far inside 32 bits, where these agree with the machine.  *)
(***************************************************************************)
RECURSIVE BitAnd(_, _)
BitAnd(x, y) ==
    IF x = 0 \/ y = 0 THEN 0
    ELSE IF x = -1 THEN y
    ELSE IF y = -1 THEN x
    ELSE (x % 2) * (y % 2) + 2 * BitAnd(x \div 2, y \div 2)

BitNot(x) == -x - 1

(***************************************************************************)
(* Memory.  A result carries err (show_runtime_error was called, which     *)
(* exits the process), and the memory as the call leaves it: a read of an  *)
(* address never written inserts { 0, UNDEFINED } there.                   *)
(***************************************************************************)
Failure(mem) == [err |-> TRUE, val |-> Value(0, UNDEFINED), mem |-> mem]

Success(v, mem) == [err |-> FALSE, val |-> v, mem |-> mem]

memory_read(address, mem, jr) ==
    IF address = jump_register_address
    THEN Success(Value(jr, BIT), mem)
    ELSE IF address > jump_register_address
         THEN IF address \notin DOMAIN mem
              THEN Success(Value(0, UNDEFINED),
                           [a \in DOMAIN mem \cup {address} |->
                               IF a = address THEN Value(0, UNDEFINED) ELSE mem[a]])
              ELSE Success(mem[address], mem)
         ELSE Failure(mem)

\* The result: err, and the memory and the jump register after the write.
memory_write(address, v, mem, jr) ==
    IF v.type = BIT /\ v.value # 0 /\ v.value # 1
    THEN [err |-> TRUE, mem |-> mem, jr |-> jr]
    ELSE IF address = jump_register_address
         THEN IF v.type = ADDRESS_OF_A_BIT
              THEN [err |-> TRUE, mem |-> mem, jr |-> jr]
              ELSE [err |-> FALSE, mem |-> mem, jr |-> v.value]
         ELSE IF address > jump_register_address
              THEN [err |-> FALSE,
                    mem |-> [a \in DOMAIN mem \cup {address} |->
                                IF a = address THEN v ELSE mem[a]],
                    jr |-> jr]
              ELSE [err |-> TRUE, mem |-> mem, jr |-> jr]

(***************************************************************************)
(* Expression nodes, as the parser builds them.                            *)
(***************************************************************************)
Expression1Node(l, r) == [node |-> "Expression1", left |-> l, right |-> r]
Expression2Node(c) == [node |-> "Expression2", child |-> c]
Expression3Node(c) == [node |-> "Expression3", child |-> c]
Expression4Node(c) == [node |-> "Expression4", child |-> c]
Expression5Node(c) == [node |-> "Expression5", constant |-> c]
VariableNode(a) == [node |-> "Variable", address |-> a]

(***************************************************************************)
(* ExpressionNode::value() of each node class.  The checks compare the     *)
(* evaluated number (value.value) with the enum's constants, as written.   *)
(***************************************************************************)
RECURSIVE value(_, _, _)

Expression1Node_value(e, mem, jr) ==
    LET value_left == value(e.left, mem, jr) IN
    IF value_left.err THEN value_left
    ELSE IF e.right # NULL
         THEN LET value_right == value(e.right, value_left.mem, jr) IN
              IF value_right.err THEN value_right
              ELSE IF value_left.val.value = ADDRESS_OF_A_BIT
                      \/ value_right.val.value = ADDRESS_OF_A_BIT
                   THEN Failure(value_right.mem)
                   ELSE Success(Value(BitNot(BitAnd(value_left.val.value,
                                                    value_right.val.value)), BIT),
                                value_right.mem)
         ELSE value_left

Expression2Node_value(e, mem, jr) ==
    LET v == value(e.child, mem, jr) IN
    IF v.err THEN v
    ELSE IF v.val.value = ADDRESS_OF_A_BIT THEN Failure(v.mem)
    ELSE IF v.val.value < jump_register_address THEN Failure(v.mem)
    ELSE IF v.val.value = jump_register_address THEN Failure(v.mem)
    ELSE Success(Value(v.val.value, ADDRESS_OF_A_BIT), v.mem)

\* Expression3Node::value and Expression4Node::value differ in the offset only.
Dereference(e, offset, mem, jr) ==
    LET v == value(e.child, mem, jr) IN
    IF v.err THEN v
    ELSE IF v.val.value = BIT THEN Failure(v.mem)
    ELSE IF v.val.value < 0 THEN Failure(v.mem)
    ELSE LET result == memory_read(v.val.value + offset, v.mem, jr) IN
         IF result.err THEN result
         ELSE IF result.val.value = ADDRESS_OF_A_BIT THEN Failure(result.mem)
         ELSE result

Expression3Node_value(e, mem, jr) == Dereference(e, 1, mem, jr)

Expression4Node_value(e, mem, jr) == Dereference(e, 0, mem, jr)

Expression5Node_value(e, mem, jr) == Success(Value(e.constant, UNDEFINED), mem)

VariableNode_value(e, mem, jr) ==
    IF e.address >= jump_register_address
    THEN memory_read(e.address, mem, jr)
    ELSE Failure(mem)

value(e, mem, jr) ==
    CASE e.node = "Expression1" -> Expression1Node_value(e, mem, jr)
      [] e.node = "Expression2" -> Expression2Node_value(e, mem, jr)
      [] e.node = "Expression3" -> Expression3Node_value(e, mem, jr)
      [] e.node = "Expression4" -> Expression4Node_value(e, mem, jr)
      [] e.node = "Expression5" -> Expression5Node_value(e, mem, jr)
      [] e.node = "Variable" -> VariableNode_value(e, mem, jr)

(***************************************************************************)
(* The nodes of a parsed program.                                          *)
(***************************************************************************)
INT_MIN == -2147483647 - 1

\* CommandNode: print_value is -1 for READ.
CommandNode(print_value) == [node |-> "Command", print_value |-> print_value]

\* AssignmentNode: address is INT_MIN when the target is an expression.
AssignmentNode(address, address_expression, expression) ==
    [node |-> "Assignment", address |-> address,
     address_expression |-> address_expression, expression |-> expression]

\* GotoNode() : next({ -1, BIT }), next_if_zero(-1), next_if_one(-1)
GotoNode == [next |-> Value(-1, BIT), next_if_zero |-> -1, next_if_one |-> -1]

LineNode(line_number, instruction, go) ==
    [line_number |-> line_number, instruction |-> instruction, go |-> go]

\* CodeNode() : first_line_number(-1), no lines
CodeNode == [lines |-> [n \in {} |-> NULL], first_line_number |-> -1]

(***************************************************************************)
(* Running an instruction.  The result: err, and the memory, the jump      *)
(* register and the output after it.  in is what read_bit() gets from the  *)
(* input: 0, 1, or anything else.                                          *)
(***************************************************************************)
Ran(w, out) == [err |-> w.err, mem |-> w.mem, jr |-> w.jr, out |-> out]

Exited(mem, jr, out) == [err |-> TRUE, mem |-> mem, jr |-> jr, out |-> out]

\* print_ascii is false: every bit is written as it comes.
print_bit(v, out) == Append(out, v)

CommandNode_run(node, mem, jr, out, in) ==
    IF node.print_value = 0 \/ node.print_value = 1
    THEN [err |-> FALSE, mem |-> mem, jr |-> jr, out |-> print_bit(node.print_value, out)]
    ELSE IF in # 0 /\ in # 1
         THEN Exited(mem, jr, out)
         ELSE Ran(memory_write(jump_register_address, Value(in, BIT), mem, jr), out)

\* The two arguments of memory_write are evaluated in an order the compiler
\* picks; both only read (and fill in never-written cells), so the order
\* decides which of two errors is reported and nothing else.
AssignmentNode_run(node, mem, jr, out) ==
    IF node.address >= jump_register_address
    THEN LET v == value(node.expression, mem, jr) IN
         IF v.err THEN Exited(mem, jr, out)
         ELSE Ran(memory_write(node.address, v.val, v.mem, jr), out)
    ELSE LET a == value(node.address_expression, mem, jr) IN
         IF a.err THEN Exited(mem, jr, out)
         ELSE LET v == value(node.expression, a.mem, jr) IN
              IF v.err THEN Exited(mem, jr, out)
              ELSE Ran(memory_write(a.val.value, v.val, v.mem, jr), out)

InstructionNode_run(node, mem, jr, out, in) ==
    IF node.node = "Command"
    THEN CommandNode_run(node, mem, jr, out, in)
    ELSE AssignmentNode_run(node, mem, jr, out)

\* GotoNode::next_line_number with "next.value > 0" for "next.value > -1":
\* a goto to line 0 is taken for no goto.
GotoNode_next_line_number_from_one(go, mem, jr) ==
    IF go.next.value > 0
    THEN IF go.next.type = ADDRESS_OF_A_BIT
         THEN LET r == memory_read(go.next.value, mem, jr) IN
              [err |-> r.err, n |-> r.val.value, mem |-> r.mem]
         ELSE [err |-> FALSE, n |-> go.next.value, mem |-> mem]
    ELSE IF go.next_if_zero > -1 /\ jr = 0
         THEN [err |-> FALSE, n |-> go.next_if_zero, mem |-> mem]
    ELSE IF go.next_if_one > -1 /\ jr = 1
         THEN [err |-> FALSE, n |-> go.next_if_one, mem |-> mem]
    ELSE [err |-> FALSE, n |-> -1, mem |-> mem]

\* GotoNode::next_line_number without the tests of the jump register: an
\* arm that is there is taken, whatever the register holds.
GotoNode_next_line_number_any_arm(go, mem, jr) ==
    IF go.next.value > -1
    THEN IF go.next.type = ADDRESS_OF_A_BIT
         THEN LET r == memory_read(go.next.value, mem, jr) IN
              [err |-> r.err, n |-> r.val.value, mem |-> r.mem]
         ELSE [err |-> FALSE, n |-> go.next.value, mem |-> mem]
    ELSE IF go.next_if_zero > -1
         THEN [err |-> FALSE, n |-> go.next_if_zero, mem |-> mem]
    ELSE IF go.next_if_one > -1
         THEN [err |-> FALSE, n |-> go.next_if_one, mem |-> mem]
    ELSE [err |-> FALSE, n |-> -1, mem |-> mem]

\* GotoNode::next_line_number.  The result: err, the number n, the memory.
GotoNode_next_line_number(go, mem, jr) ==
    IF go.next.value > -1
    THEN IF go.next.type = ADDRESS_OF_A_BIT
         THEN LET r == memory_read(go.next.value, mem, jr) IN
              [err |-> r.err, n |-> r.val.value, mem |-> r.mem]
         ELSE [err |-> FALSE, n |-> go.next.value, mem |-> mem]
    ELSE IF go.next_if_zero > -1 /\ jr = 0
         THEN [err |-> FALSE, n |-> go.next_if_zero, mem |-> mem]
    ELSE IF go.next_if_one > -1 /\ jr = 1
         THEN [err |-> FALSE, n |-> go.next_if_one, mem |-> mem]
    ELSE [err |-> FALSE, n |-> -1, mem |-> mem]

(***************************************************************************)
(* The program text.                                                       *)
(*   instruction: PRINT <bit> | READ | <target> EQUALS <expression>        *)
(*   goto:        GOTO [VARIABLE] <address1>                               *)
(*                  [ IF THE JUMP REGISTER IS [EQUAL TO] <bit>             *)
(*                    [ GOTO [VARIABLE] <address>                          *)
(*                        IF THE JUMP REGISTER IS [EQUAL TO] <bit> ] ]     *)
(***************************************************************************)
PrintText(b) == [kind |-> "PRINT", bit |-> b]
ReadText == [kind |-> "READ"]
AssignText(target, expression) ==
    [kind |-> "ASSIGN", target |-> target, expression |-> expression]

\* condition and second are NULL when the clause is not written.
GotoText(variable, address1, condition, second) ==
    [variable |-> variable, address1 |-> address1,
     condition |-> condition, second |-> second]
IfText(b) == [bit |-> b]
SecondText(variable, address, b) ==
    [variable |-> variable, address |-> address, bit |-> b]

LineText(line_number, instruction, go) ==
    [line_number |-> line_number, instruction |-> instruction, go |-> go]

(***************************************************************************)
(* The parser.  A result carries err (show_parser_error was called) and    *)
(* the node built.                                                         *)
(***************************************************************************)
Parsed(node) == [err |-> FALSE, node |-> node]

ParseError == [err |-> TRUE, node |-> NULL]

parse_command(src) ==
    IF src.kind = "PRINT"
    THEN Parsed(CommandNode(src.bit))
    ELSE Parsed(CommandNode(-1))

\* The target is read as a variable when it starts with VARIABLE or THE
\* JUMP REGISTER, and EQUALS must then follow the variable at once.
parse_assignment(src) ==
    IF src.target.left.node = "Variable"
    THEN IF src.target.right # NULL
         THEN ParseError
         ELSE Parsed(AssignmentNode(src.target.left.address, NULL, src.expression))
    ELSE Parsed(AssignmentNode(INT_MIN, src.target, src.expression))

parse_instruction(src) ==
    IF src.kind = "PRINT" \/ src.kind = "READ"
    THEN parse_command(src)
    ELSE parse_assignment(src)

\* The arms bound the wrong way round: "(bit == 0) ? next_if_one : next_if_zero".
BindArm_swapped(node, b, address) ==
    IF b = 0
    THEN [node EXCEPT !.next_if_one = address]
    ELSE [node EXCEPT !.next_if_zero = address]

\* The assignment "(bit == 0) ? (node->next_if_zero = a) : (node->next_if_one = a)".
BindArm(node, b, address) ==
    IF b = 0
    THEN [node EXCEPT !.next_if_zero = address]
    ELSE [node EXCEPT !.next_if_one = address]

\* "node->next.type == ADDRESS_OF_A_BIT;" after VARIABLE compares and sets
\* nothing: the node is the same with or without the keyword.  The second
\* clause goes from consume(GOTO) straight to parse_bits(), which finds no
\* bit constant at a VARIABLE written there.
parse_goto(src) ==
    LET node == GotoNode IN
    IF src.condition # NULL
    THEN LET first == BindArm(node, src.condition.bit, src.address1) IN
         IF src.second # NULL
         THEN IF src.second.variable
              THEN ParseError
              ELSE IF src.condition.bit = src.second.bit
              THEN ParseError
              ELSE Parsed(BindArm(first, src.second.bit, src.second.address))
         ELSE Parsed(first)
    ELSE Parsed([node EXCEPT !.next.value = src.address1])

parse_line(src) ==
    LET instruction == parse_instruction(src.instruction) IN
    IF instruction.err THEN ParseError
    ELSE IF src.go # NULL
         THEN LET go == parse_goto(src.go) IN
              IF go.err THEN ParseError
              ELSE Parsed(LineNode(src.line_number, instruction.node, go.node))
         ELSE Parsed(LineNode(src.line_number, instruction.node, NULL))

\* node->lines[line->line_number] = *line
Insert(node, ln) ==
    [node EXCEPT !.lines = [n \in DOMAIN node.lines \cup {ln.line_number} |->
                               IF n = ln.line_number THEN ln ELSE node.lines[n]]]

\* The while loop without "if (node->lines.count(line->line_number) > 0)":
\* a line declared again replaces the one declared before.
RECURSIVE parse_more_lines_overwriting(_, _, _)
parse_more_lines_overwriting(txt, i, node) ==
    IF i > Len(txt) THEN Parsed(node)
    ELSE LET ln == parse_line(txt[i]) IN
         IF ln.err THEN ParseError
         ELSE parse_more_lines_overwriting(txt, i + 1, Insert(node, ln.node))

\* The while loop of parse_code, from the i-th line of the text on.
RECURSIVE parse_more_lines(_, _, _)
parse_more_lines(txt, i, node) ==
    IF i > Len(txt) THEN Parsed(node)
    ELSE LET ln == parse_line(txt[i]) IN
         IF ln.err THEN ParseError
         ELSE IF ln.node.line_number \in DOMAIN node.lines THEN ParseError
         ELSE parse_more_lines(txt, i + 1, Insert(node, ln.node))

parse_code(txt) ==
    IF Len(txt) = 0 THEN ParseError
    ELSE LET ln == parse_line(txt[1]) IN
         IF ln.err THEN ParseError
         ELSE parse_more_lines(txt, 2,
                  [Insert(CodeNode, ln.node) EXCEPT !.first_line_number = ln.node.line_number])

(***************************************************************************)
(* Program texts of the model.  The lines of a text have different line    *)
(* numbers; any of them may come first (it is the entry line), the others  *)
(* follow in ascending order, the order the lines map would give them.     *)
(***************************************************************************)
LineNumbers == 0..MaxLineNumber

\* What read_bit() may get from the input; 2 stands for any non-bit.
Inputs == {0, 1, 2}

\* An expression with no NAND: Expression1Node with left only.
Single(e) == Expression1Node(e, NULL)

Commands == {PrintText(0), PrintText(1), ReadText}

\* THE JUMP REGISTER, VARIABLE ZERO, and the computed targets ONE and
\* THE VALUE AT VARIABLE ONE.
AssignmentTargets ==
    {Single(VariableNode(jump_register_address)), Single(VariableNode(0)),
     Single(Expression5Node(1)), Single(Expression4Node(VariableNode(1)))}

\* THE JUMP REGISTER, ONE ZERO, THE ADDRESS OF VARIABLE ZERO,
\* THE JUMP REGISTER NAND THE JUMP REGISTER.
AssignmentSources ==
    {Single(VariableNode(jump_register_address)), Single(Expression5Node(2)),
     Single(Expression2Node(VariableNode(0))),
     Expression1Node(VariableNode(jump_register_address),
                     VariableNode(jump_register_address))}

Assignments == {AssignText(t, e) : t \in AssignmentTargets, e \in AssignmentSources}

PlainGotos == {GotoText(FALSE, t, NULL, NULL) : t \in LineNumbers}

VariableGotos == {GotoText(TRUE, t, NULL, NULL) : t \in LineNumbers}

OneArmGotos == {GotoText(FALSE, t, IfText(b), NULL) : t \in LineNumbers, b \in {0, 1}}

TwoArmGotos ==
    {GotoText(FALSE, t.first, IfText(b), SecondText(FALSE, t.second, 1 - b)) :
        t \in [first : LineNumbers, second : LineNumbers], b \in {0, 1}}

RECURSIVE Ascending(_, _)
Ascending(numbers, content) ==
    IF numbers = {} THEN <<>>
    ELSE LET n == CHOOSE m \in numbers : \A k \in numbers : m <= k IN
         <<LineText(n, content[n][1], content[n][2])>>
             \o Ascending(numbers \ {n}, content)

\* The text with the line numbered first in front.
TextOf(first, content) ==
    <<LineText(first, content[first][1], content[first][2])>>
        \o Ascending((DOMAIN content) \ {first}, content)

\* text is one of the texts whose lines take their instructions and gotos
\* from the given sets.
IsTextOf(instructions, gotos) ==
    \E numbers \in (SUBSET LineNumbers) \ {{}} :
        \E first \in numbers :
            \E content \in [numbers -> instructions \X gotos] :
                text = TextOf(first, content)

(***************************************************************************)
(* main(): run_code(parse(&text)).                                         *)
(***************************************************************************)
InitWith(instructions, gotos) ==
    /\ IsTextOf(instructions, gotos)
    /\ code = CodeNode
    /\ pc = "parse"
    /\ line = -1
    /\ next_line_number = -1
    /\ memory = [a \in {} |-> NULL]
    /\ jump_register = 0
    /\ output = <<>>
    /\ steps = 0
    /\ input = <<>>
    /\ position = 0
    /\ scanned = [call |-> "none"]

\* Texts with every kind of instruction, and plain and VARIABLE gotos.
Init == InitWith(Commands \cup Assignments, {NULL} \cup PlainGotos \cup VariableGotos)

\* Texts whose lines are chained by unconditional gotos.  Besides the
\* commands a line may hold THE JUMP REGISTER EQUALS ONE or VARIABLE ZERO
\* EQUALS THE JUMP REGISTER NAND THE JUMP REGISTER.
ChainInstructions ==
    Commands \cup
    {AssignText(Single(VariableNode(jump_register_address)), Single(Expression5Node(1))),
     AssignText(Single(VariableNode(0)),
                Expression1Node(VariableNode(jump_register_address),
                                VariableNode(jump_register_address)))}

InitChain == InitWith(ChainInstructions, {NULL} \cup PlainGotos)

\* Texts whose lines READ and branch on the jump register.
InitBranch == InitWith({ReadText}, {NULL} \cup OneArmGotos \cup TwoArmGotos)

\* Texts whose lines READ and have a goto of two clauses: every target,
\* every pair of guard bits, VARIABLE written or not in either clause.
TwoClauseGotos ==
    {GotoText(v[1], t[1], IfText(b[1]), SecondText(v[2], t[2], b[2])) :
        v \in BOOLEAN \X BOOLEAN, t \in LineNumbers \X LineNumbers,
        b \in {0, 1} \X {0, 1}}

InitClauses == InitWith({ReadText}, TwoClauseGotos)

\* Texts whose lines READ or store ONE ZERO in the jump register, and have
\* an unconditional goto, a goto with one arm, or none.
ArmInstructions ==
    {ReadText,
     AssignText(Single(VariableNode(jump_register_address)), Single(Expression5Node(2)))}

InitArms == InitWith(ArmInstructions, {NULL} \cup PlainGotos \cup OneArmGotos)

\* Texts of up to MaxLines lines that PRINT, in any order and with any line
\* numbers: more lines than there are line numbers, so that numbers repeat.
MaxLines == MaxLineNumber + 2

LineTexts(instructions, gotos) ==
    {LineText(n, i, g) : n \in LineNumbers, i \in instructions, g \in gotos}

InitLines ==
    /\ \E len \in 1..MaxLines :
           text \in [1..len -> LineTexts({PrintText(0), PrintText(1)},
                                         {NULL} \cup PlainGotos)]
    /\ code = CodeNode
    /\ pc = "parse"
    /\ line = -1
    /\ next_line_number = -1
    /\ memory = [a \in {} |-> NULL]
    /\ jump_register = 0
    /\ output = <<>>
    /\ steps = 0
    /\ input = <<>>
    /\ position = 0
    /\ scanned = [call |-> "none"]

\* parse(): clears the memory and the jump register, then parse_code().
parse ==
    /\ pc = "parse"
    /\ LET r == parse_code(text) IN
       /\ pc' = IF r.err THEN "parse_error" ELSE "run"
       /\ code' = IF r.err THEN code ELSE r.node
    /\ memory' = [a \in {} |-> NULL]
    /\ jump_register' = 0
    /\ UNCHANGED <<text, line, next_line_number, output, steps, scanner>>

\* show_runtime_error(): the process exits.
RuntimeError ==
    /\ pc' = "runtime_error"
    /\ UNCHANGED <<memory, jump_register, output, next_line_number>>

\* The body CodeNode::run repeats for a line: run its instruction, then ask
\* its goto, if it has one, for the next line number.
RunLine(n, in) ==
    LET ln == code.lines[n]
        r == InstructionNode_run(ln.instruction, memory, jump_register, output, in)
        g == GotoNode_next_line_number(ln.go, r.mem, r.jr)
    IN  /\ line' = n
        /\ steps' = steps + 1
        /\ IF r.err THEN RuntimeError
           ELSE /\ jump_register' = r.jr
                /\ output' = r.out
                /\ IF ln.go = NULL
                   THEN /\ pc' = "done"
                        /\ memory' = r.mem
                        /\ UNCHANGED next_line_number
                   ELSE IF g.err
                        THEN /\ pc' = "runtime_error"
                             /\ memory' = r.mem
                             /\ UNCHANGED next_line_number
                        ELSE /\ memory' = g.mem
                             /\ next_line_number' = g.n
                             /\ pc' = IF g.n >= 0 THEN "loop" ELSE "done"

\* CodeNode::run, the first line.
run_first_line ==
    /\ pc = "run"
    /\ \E in \in Inputs : RunLine(code.first_line_number, in)
    /\ UNCHANGED <<text, code, scanner>>

\* The while loop without "if (lines.count(next_line_number) == 0)": a
\* missing line ends the run as if the last line had no goto.
run_next_line_unchecked ==
    /\ pc = "loop"
    /\ steps < MaxSteps
    /\ IF next_line_number \notin DOMAIN code.lines
       THEN /\ pc' = "done"
            /\ UNCHANGED <<memory, jump_register, output, next_line_number, line, steps>>
       ELSE \E in \in Inputs : RunLine(next_line_number, in)
    /\ UNCHANGED <<text, code, scanner>>

\* CodeNode::run, one turn of the while loop.
run_next_line ==
    /\ pc = "loop"
    /\ steps < MaxSteps
    /\ IF next_line_number \notin DOMAIN code.lines
       THEN RuntimeError /\ UNCHANGED <<line, steps>>
       ELSE \E in \in Inputs : RunLine(next_line_number, in)
    /\ UNCHANGED <<text, code, scanner>>

Next == parse \/ run_first_line \/ run_next_line

Spec == Init /\ [][Next]_vars

SpecChain == InitChain /\ [][Next]_vars

SpecBranch == InitBranch /\ [][Next]_vars

SpecLines == InitLines /\ [][Next]_vars

SpecClauses == InitClauses /\ [][Next]_vars

SpecArms == InitArms /\ [][Next]_vars

(***************************************************************************)
(* The scanner.  input is a sequence of characters and position counts     *)
(* from 0, so that input->at(p) is input[p + 1]; at() throws               *)
(* std::out_of_range when p is not below the length, and nothing catches   *)
(* it: the process is terminated.                                          *)
(***************************************************************************)
MaxInput == 4

\* The width of int.
IntBits == 32

ZERO == <<"Z", "E", "R", "O">>
ONE == <<"O", "N", "E">>
GOTO == <<"G", "O", "T", "O">>

Symbols == {ZERO, ONE, GOTO}

Alphabet == {"Z", "E", "R", "O", "N", "G", "T", " "}

is_whitespace(character) == character = " "

RECURSIVE skip_whitespace(_, _)
skip_whitespace(in, pos) ==
    IF pos < Len(in) /\ is_whitespace(in[pos + 1])
    THEN skip_whitespace(in, pos + 1)
    ELSE pos

\* consume(char): the cursor after the character, or -1 for false.
consume_character(character, in, pos) ==
    IF pos < Len(in) /\ in[pos + 1] = character THEN pos + 1 ELSE -1

\* consume(string): err when show_parser_error was called, else the cursor
\* after the symbol.
RECURSIVE consume_from(_, _, _, _)
consume_from(symbol, k, in, pos) ==
    IF k > Len(symbol) THEN [err |-> FALSE, pos |-> pos]
    ELSE LET after == consume_character(symbol[k], in, skip_whitespace(in, pos)) IN
         IF after = -1
         THEN [err |-> TRUE, pos |-> skip_whitespace(in, pos)]
         ELSE consume_from(symbol, k + 1, in, after)

consume(symbol, in, pos) == consume_from(symbol, 1, in, pos)

\* The loop "while (is_whitespace(input->at(positionTemp)))" of check.
RECURSIVE check_whitespace(_, _)
check_whitespace(in, positionTemp) ==
    IF positionTemp >= Len(in)
    THEN [outcome |-> "out_of_range", p |-> positionTemp]
    ELSE IF is_whitespace(in[positionTemp + 1])
         THEN IF positionTemp + 1 >= Len(in)
              THEN [outcome |-> "false", p |-> positionTemp + 1]
              ELSE check_whitespace(in, positionTemp + 1)
         ELSE [outcome |-> "at", p |-> positionTemp]

\* The for loop of check, from the k-th character of the symbol on.
RECURSIVE check_from(_, _, _, _)
check_from(symbol, k, in, positionTemp) ==
    IF k > Len(symbol) THEN "true"
    ELSE LET w == check_whitespace(in, positionTemp) IN
         IF w.outcome # "at" THEN w.outcome
         ELSE IF in[w.p + 1] # symbol[k] THEN "false"
         ELSE check_from(symbol, k + 1, in, w.p + 1)

\* check(symbol): "true", "false", or "out_of_range" when at() threw.
check(symbol, in, pos) ==
    IF pos >= Len(in) THEN "false" ELSE check_from(symbol, 1, in, pos)

\* What parse_bit and parse_bits come to: "ok" with the number and the
\* cursor, "parse_error", or "out_of_range".
Scanned(n, pos) == [outcome |-> "ok", n |-> n, pos |-> pos]

Stopped(outcome, pos) == [outcome |-> outcome, n |-> -1, pos |-> pos]

Consumed(symbol, n, in, pos) ==
    LET c == consume(symbol, in, pos) IN
    IF c.err THEN Stopped("parse_error", c.pos) ELSE Scanned(n, c.pos)

parse_bit(in, pos) ==
    LET p == skip_whitespace(in, pos)
        zero == check(ZERO, in, p)
        one == check(ONE, in, p)
    IN  IF zero = "out_of_range" THEN Stopped("out_of_range", p)
        ELSE IF zero = "true" THEN Consumed(ZERO, 0, in, p)
        ELSE IF one = "out_of_range" THEN Stopped("out_of_range", p)
        ELSE IF one = "true" THEN Consumed(ONE, 1, in, p)
        ELSE Stopped("parse_error", p)

\* "bits << 1" in an int of IntBits bits, two's complement: the bit shifted
\* into the sign makes the number negative.
ShiftLeft(bits) ==
    LET half == 2^(IntBits - 2) IN
    IF bits >= half THEN (bits - half) * 2 + INT_MIN
    ELSE IF bits < -half THEN ((bits + half) * 2 + (-(INT_MIN + 1))) + 1
    ELSE bits * 2

\* The while loop of parse_bits; "(bits << 1) | bit" sets the lowest bit,
\* which the shift left clear.
RECURSIVE more_bits(_, _, _)
more_bits(in, pos, bits) ==
    LET zero == check(ZERO, in, pos)
        one == check(ONE, in, pos)
    IN  IF zero = "out_of_range" THEN Stopped("out_of_range", pos)
        ELSE IF zero = "false" /\ one = "out_of_range" THEN Stopped("out_of_range", pos)
        ELSE IF zero = "true" \/ one = "true"
             THEN LET bit == parse_bit(in, pos) IN
                  IF bit.outcome # "ok" THEN bit
                  ELSE more_bits(in, bit.pos, ShiftLeft(bits) + bit.n)
        ELSE Scanned(bits, pos)

parse_bits(in, pos) ==
    LET bit == parse_bit(in, skip_whitespace(in, pos)) IN
    IF bit.outcome # "ok" THEN bit ELSE more_bits(in, bit.pos, bit.n)

\* The inputs of the scanner: every string of up to MaxInput characters,
\* every string of up to MaxInput bits spelled with blanks between, and the
\* strings of up to IntBits bits that are all ONE, or ONE and then all ZERO.
RECURSIVE Spelled(_, _)
Spelled(bits, blank) ==
    IF bits = <<>> THEN <<>>
    ELSE (IF bits[1] = 0 THEN ZERO ELSE ONE)
             \o (IF Len(bits) > 1 THEN blank ELSE <<>>)
             \o Spelled(Tail(bits), blank)

IsInput(in) ==
    \/ \E n \in 0..MaxInput : in \in [1..n -> Alphabet]
    \/ \E n \in 1..MaxInput : \E bits \in [1..n -> {0, 1}] : in = Spelled(bits, <<" ">>)
    \/ \E n \in 1..IntBits : \E rest \in {0, 1} :
           in = Spelled([i \in 1..n |-> IF i = 1 THEN 1 ELSE rest], <<>>)

InitScan ==
    /\ IsInput(input)
    /\ position = 0
    /\ scanned = [call |-> "none"]
    /\ pc = "scan"
    /\ text = <<>>
    /\ code = CodeNode
    /\ line = -1
    /\ next_line_number = -1
    /\ memory = [a \in {} |-> NULL]
    /\ jump_register = 0
    /\ output = <<>>
    /\ steps = 0

interpreter == <<text, code, line, next_line_number, memory, jump_register, output, steps>>

\* A call of check(symbol) at the cursor.
check_symbol ==
    /\ pc = "scan"
    /\ \E symbol \in Symbols :
           LET r == check(symbol, input, position) IN
           /\ scanned' = [call |-> "check", symbol |-> symbol, result |-> r,
                          from |-> position]
           /\ pc' = IF r = "out_of_range" THEN "terminated" ELSE "scan"
    /\ UNCHANGED <<input, position, interpreter>>

\* A call of consume(symbol) at the cursor.
consume_symbol ==
    /\ pc = "scan"
    /\ \E symbol \in Symbols :
           LET r == consume(symbol, input, position) IN
           /\ scanned' = [call |-> "consume", symbol |-> symbol, result |-> ~r.err,
                          from |-> position]
           /\ position' = r.pos
           /\ pc' = IF r.err THEN "parse_error" ELSE "scan"
    /\ UNCHANGED <<input, interpreter>>

\* A call of parse_bits() at the cursor.
scan_bits ==
    /\ pc = "scan"
    /\ LET r == parse_bits(input, position) IN
       /\ scanned' = [call |-> "parse_bits", result |-> r.n, from |-> position]
       /\ position' = r.pos
       /\ pc' = CASE r.outcome = "ok" -> "scan"
                  [] r.outcome = "parse_error" -> "parse_error"
                  [] r.outcome = "out_of_range" -> "terminated"
    /\ UNCHANGED <<input, interpreter>>

NextScan == check_symbol \/ consume_symbol \/ scan_bits

SpecScan == InitScan /\ [][NextScan]_vars

(***************************************************************************)
(* What the claims speak of.                                               *)
(***************************************************************************)
\* A line has run and the run has not failed.
Live == pc \in {"loop", "done"}

Addresses == 0..MaxAddress

Variables == {VariableNode(a) : a \in {jump_register_address} \cup Addresses}

Constants == {Expression5Node(c) : c \in 0..MaxConstant}

\* The value of an expression in the current state.
Now(e) == value(e, memory, jump_register)

\* What memory cell a holds now.
Cell(a) == memory_read(a, memory, jump_register).val

IsBit(r) == ~r.err /\ r.val.type = BIT /\ r.val.value \in {0, 1}

\* The line of the text with line number n.
TextLine(n) == text[CHOOSE i \in 1..Len(text) : text[i].line_number = n]

Defined(n) == \E i \in 1..Len(text) : text[i].line_number = n

(***************************************************************************)
(* C1.  A NAND node whose operands are the bits a and b evaluates to a     *)
(* value of kind Bit with payload 1 - (a AND b): (0,0)->1, (0,1)->1,       *)
(* (1,0)->1, (1,1)->0.                                                     *)
(***************************************************************************)
NandTruthTable ==
    Live =>
        \A l \in Variables, r \in Variables :
            (IsBit(Now(l)) /\ IsBit(Now(r))) =>
                LET n == Now(Expression1Node(l, r)) IN
                /\ ~n.err
                /\ n.val = Value(1 - Now(l).val.value * Now(r).val.value, BIT)

(***************************************************************************)
(* C2.  A NAND node with a right operand fails with a runtime error        *)
(* whenever an operand's value has a kind other than Bit, whatever its     *)
(* payload.                                                                *)
(***************************************************************************)
NandRejectsNonBits ==
    Live =>
        \A l \in Variables \cup Constants, r \in Variables \cup Constants :
            LET vl == Now(l)
                vr == Now(r)
            IN  (~vl.err /\ ~vr.err /\ (vl.val.type # BIT \/ vr.val.type # BIT))
                    => Now(Expression1Node(l, r)).err

(***************************************************************************)
(* C3.  For every ordinary address x and every memory state, THE VALUE AT  *)
(* (THE ADDRESS OF VARIABLE x) evaluates to what memory cell x holds.      *)
(***************************************************************************)
ValueAtAddressOf(x) == Expression4Node(Single(Expression2Node(VariableNode(x))))

ValueAtAddressOfIsCell ==
    Live =>
        \A x \in Addresses :
            LET r == Now(Single(ValueAtAddressOf(x))) IN
            ~r.err /\ r.val = Cell(x)

(***************************************************************************)
(* C4.  THE ADDRESS OF THE JUMP REGISTER fails with a runtime error,       *)
(* whatever the jump register holds.                                       *)
(***************************************************************************)
AddressOfJumpRegisterFails ==
    Live => Now(Single(Expression2Node(VariableNode(jump_register_address)))).err

(***************************************************************************)
(* C5.  For every ordinary address a and every memory state, THE ADDRESS   *)
(* OF VARIABLE a succeeds with a value of kind AddressOfBit and payload a. *)
(***************************************************************************)
AddressOfVariableIsItsAddress ==
    Live =>
        \A a \in Addresses :
            LET r == Now(Single(Expression2Node(VariableNode(a)))) IN
            ~r.err /\ r.val = Value(a, ADDRESS_OF_A_BIT)

(***************************************************************************)
(* C6.  In every state a run reaches, the jump register is a one-bit cell: *)
(* what is read from it has kind Bit and payload 0 or 1.                   *)
(***************************************************************************)
JumpRegisterIsOneBit ==
    LET r == memory_read(jump_register_address, memory, jump_register) IN
    ~r.err /\ r.val.type = BIT /\ r.val.value \in {0, 1}

(***************************************************************************)
(* C7.  An assignment whose target is an expression that evaluates to the  *)
(* address a >= 0 leaves memory cell a holding the right-hand value v, and *)
(* THE VALUE AT a, read next, returns v.                                   *)
(***************************************************************************)
\* The line this step runs, when the step runs one.
Running(n) ==
    /\ steps' = steps + 1
    /\ \/ pc = "run" /\ n = code.first_line_number
       \/ pc = "loop" /\ n = next_line_number

\* A value memory_write accepts as a Bit or as another kind.
Storable(v) == v.type = BIT => v.value \in {0, 1}

IndirectWriteIsReadBack ==
    [][\A n \in DOMAIN code.lines :
          LET node == code.lines[n].instruction
              a == Now(node.address_expression)
              v == value(node.expression, a.mem, jump_register)
          IN  (/\ Running(n)
               /\ node.node = "Assignment"
               /\ node.address_expression # NULL
               /\ ~a.err /\ a.val.value >= 0
               /\ ~v.err /\ Storable(v.val))
              => /\ pc' # "runtime_error"
                 /\ a.val.value \in DOMAIN memory'
                 /\ memory'[a.val.value] = v.val
                 /\ LET r == value(Single(Expression4Node(Expression5Node(a.val.value))),
                                   memory', jump_register')
                    IN  ~r.err /\ r.val = v.val]_vars

(***************************************************************************)
(* C8.  After a line whose goto is written GOTO VARIABLE <bits>, the next  *)
(* line is the one whose number is stored in memory at address <bits>, not *)
(* the line numbered <bits>.                                               *)
(***************************************************************************)
GotoVariableIsIndirect ==
    (/\ pc = "loop"
     /\ TextLine(line).go # NULL
     /\ TextLine(line).go.variable
     /\ TextLine(line).go.condition = NULL)
    => next_line_number = Cell(TextLine(line).go.address1).value

(***************************************************************************)
(* C9.  A program whose lines are chained by unconditional gotos runs its  *)
(* lines in goto order from the entry line, emits exactly the PRINT bits   *)
(* of those lines in that order, and halts right after the first line it   *)
(* runs that has no goto.                                                  *)
(***************************************************************************)
\* The k-th line in goto order, read off the text: the entry line is the
\* first line written, and each next one is the target its predecessor's
\* goto names.  -1 when the chain has ended before.
RECURSIVE ChainLine(_)
ChainLine(k) ==
    IF k = 1 THEN text[1].line_number
    ELSE LET p == ChainLine(k - 1) IN
         IF p = -1 \/ ~Defined(p) THEN -1
         ELSE IF TextLine(p).go = NULL THEN -1
         ELSE TextLine(p).go.address1

\* The PRINT bits of the first k lines in goto order.
RECURSIVE ChainBits(_)
ChainBits(k) ==
    IF k = 0 THEN <<>>
    ELSE LET instruction == TextLine(ChainLine(k)).instruction IN
         IF instruction.kind = "PRINT"
         THEN Append(ChainBits(k - 1), instruction.bit)
         ELSE ChainBits(k - 1)

\* A run that fails has emitted the bits of the lines before the failure:
\* no PRINT fails.
ChainRunsInGotoOrder ==
    /\ pc \in {"loop", "done", "runtime_error"} =>
           /\ steps >= 1
           /\ line = ChainLine(steps)
           /\ output = ChainBits(steps)
    /\ pc \in {"loop", "done"} =>
           /\ (pc = "done") = (TextLine(line).go = NULL)
           /\ pc = "loop" => next_line_number = ChainLine(steps + 1)

\* Lines 0 and 1 have run in this order and emitted 0 and 1; the run has
\* halted after line 1, which has no goto.
ChainHalted ==
    /\ pc = "done"
    /\ steps = 2
    /\ text[1].line_number = 0
    /\ line = 1
    /\ output = <<0, 1>>
    /\ TextLine(1).go = NULL

(***************************************************************************)
(* C10.  When a line with a conditional goto, zero-arm to line A and       *)
(* one-arm to line B, has run its instruction, the next line is B if the   *)
(* jump register then holds 1 and A if it then holds 0.                    *)
(***************************************************************************)
TwoArmed(go) == go # NULL /\ go.condition # NULL /\ go.second # NULL

\* The target a two-armed goto text gives for bit b.
ArmFor(go, b) == IF go.condition.bit = b THEN go.address1 ELSE go.second.address

BranchFollowsJumpRegister ==
    /\ [](\A b \in {0, 1} :
            (/\ pc \in {"loop", "done"}
             /\ TwoArmed(TextLine(line).go)
             /\ jump_register = b)
            => /\ pc = "loop"
               /\ next_line_number = ArmFor(TextLine(line).go, b))
    /\ [][(pc = "loop" /\ steps' = steps + 1) => line' = next_line_number]_vars

\* A line with two different arms has read 1 into the jump register, which
\* held 0 before, and the run goes on to the one-arm's line.
BranchTaken ==
    /\ pc = "loop"
    /\ steps = 2
    /\ TwoArmed(TextLine(line).go)
    /\ ArmFor(TextLine(line).go, 0) # ArmFor(TextLine(line).go, 1)
    /\ jump_register = 1
    /\ next_line_number = ArmFor(TextLine(line).go, 1)

(***************************************************************************)
(* C11. Whenever a goto has resolved to a line number the text does not    *)
(* define, the step the run takes is the fatal runtime error: no           *)
(* instruction runs (no line is entered, nothing is printed, read or       *)
(* stored), and after a runtime error the run takes no step at all.        *)
(***************************************************************************)
UndefinedTargetIsFatal ==
    [][/\ pc # "runtime_error"
       /\ (pc = "loop" /\ ~Defined(next_line_number)) =>
              /\ pc' = "runtime_error"
              /\ line' = line
              /\ steps' = steps
              /\ output' = output
              /\ memory' = memory
              /\ jump_register' = jump_register]_vars

\* A run that failed on the goto of a line to a line that is not there.
UndefinedTargetReached ==
    /\ pc = "runtime_error"
    /\ steps >= 1
    /\ next_line_number >= 0
    /\ ~Defined(next_line_number)
    /\ TextLine(line).go # NULL

(***************************************************************************)
(* C12. A text in which two lines, the first line included, declare the    *)
(* same line number fails with a parse error; a text that parsed gives a   *)
(* program whose line numbers are those the text declares, each mapped to  *)
(* the one line declared with it, and whose entry is the first line.       *)
(***************************************************************************)
DeclaredTwice ==
    \E i, j \in 1..Len(text) : i < j /\ text[i].line_number = text[j].line_number

DuplicateLineIsParseError ==
    pc # "parse" =>
        /\ DeclaredTwice => pc = "parse_error"
        /\ pc # "parse_error" =>
               /\ DOMAIN code.lines = {text[i].line_number : i \in 1..Len(text)}
               /\ \A i \in 1..Len(text) :
                      code.lines[text[i].line_number] = parse_line(text[i]).node
               /\ code.first_line_number = text[1].line_number

\* A text rejected for a later line that declares the number of the first
\* line again, with another content.
FirstLineDeclaredAgain ==
    /\ pc = "parse_error"
    /\ \E j \in 2..Len(text) :
           /\ text[j].line_number = text[1].line_number
           /\ text[j] # text[1]
           /\ \A i, k \in 1..Len(text) :
                  (i < k /\ text[i].line_number = text[k].line_number) => (i = 1 /\ k = j)

(***************************************************************************)
(* C13. A goto of two clauses parses exactly when its two guard bits       *)
(* differ: with the same bit twice the text fails with a parse error, and  *)
(* with 0 and 1 in either order the goto has its zero arm and its one arm  *)
(* bound to the targets of the clauses that guard 0 and 1, and no          *)
(* unconditional target.                                                   *)
(***************************************************************************)
SameGuardBit(go) == go.condition.bit = go.second.bit

TargetGuarding(go, b) ==
    IF go.condition.bit = b THEN go.address1 ELSE go.second.address

TwoClausesParseIffBitsDiffer ==
    pc # "parse" =>
        /\ (pc = "parse_error") = (\E i \in 1..Len(text) : SameGuardBit(text[i].go))
        /\ pc # "parse_error" =>
               \A i \in 1..Len(text) :
                   LET go == code.lines[text[i].line_number].go IN
                   /\ go.next.value = -1
                   /\ go.next_if_zero = TargetGuarding(text[i].go, 0)
                   /\ go.next_if_one = TargetGuarding(text[i].go, 1)

(***************************************************************************)
(* C15. THE VALUE AT and THE VALUE BEYOND fail whenever their child has    *)
(* the kind Bit, and a child of kind Undefined or AddressOfBit is never    *)
(* refused for what it is: with an address that is not negative and a      *)
(* cell there that holds no address, the evaluation succeeds.              *)
(***************************************************************************)
Dereferences(e) == {[node |-> Expression4Node(e), offset |-> 0],
                    [node |-> Expression3Node(e), offset |-> 1]}

Readable(a) ==
    /\ a >= 0
    /\ Cell(a).type # ADDRESS_OF_A_BIT
    /\ Cell(a).value # ADDRESS_OF_A_BIT

DereferenceFailsExactlyOnBits ==
    \A e \in Variables \cup Constants :
        LET child == Now(e) IN
        (Live /\ ~child.err) =>
            \A d \in Dereferences(e) :
                /\ child.val.type = BIT => Now(d.node).err
                /\ (child.val.type # BIT /\ Readable(child.val.value + d.offset)) =>
                       ~Now(d.node).err

(***************************************************************************)
(* C16. THE VALUE AT and THE VALUE BEYOND never succeed with a value of    *)
(* kind AddressOfBit: when the cell they read holds one, they fail.        *)
(***************************************************************************)
DereferenceNeverYieldsAddress ==
    \A e \in Variables \cup Constants :
        \A d \in Dereferences(e) :
            LET r == Now(d.node) IN
            (Live /\ ~r.err) => r.val.type # ADDRESS_OF_A_BIT

(***************************************************************************)
(* C17. When the goto of the line that has run has no arm for what the     *)
(* jump register holds, the run is over after that line: it has not        *)
(* failed and it takes no further step.  With any other goto the run goes  *)
(* on to the target the goto resolves to, and the next line entered is     *)
(* that line.                                                              *)
(***************************************************************************)
\* The target the goto written in the text has for the register value jr,
\* -1 when it has none.
Resolved(go, jr) ==
    IF go.condition = NULL THEN go.address1
    ELSE IF go.condition.bit = jr THEN go.address1
    ELSE IF go.second # NULL /\ go.second.bit = jr THEN go.second.address
    ELSE -1

HaltsWithoutArm ==
    /\ [](Live /\ TextLine(line).go # NULL =>
              LET target == Resolved(TextLine(line).go, jump_register) IN
              IF target = -1
              THEN pc = "done"
              ELSE pc = "loop" /\ next_line_number = target)
    /\ [][/\ pc # "done"
          /\ (pc = "loop" /\ Defined(next_line_number)) =>
                 (line' = next_line_number /\ steps' = steps + 1)]_vars

\* A run that ended on a line whose goto has one arm, for the other bit.
HaltedWithoutArm ==
    /\ pc = "done"
    /\ steps >= 2
    /\ TextLine(line).go # NULL
    /\ TextLine(line).go.condition # NULL
    /\ jump_register \in {0, 1}
    /\ Resolved(TextLine(line).go, jump_register) = -1
    /\ Defined(TextLine(line).go.address1)

(***************************************************************************)
(* C14. For every non-empty sequence of ZERO and ONE that parse_bits       *)
(* reads, the number it returns is not negative and is the binary value    *)
(* of the sequence, most significant bit first: its binary digits are the  *)
(* bits read, leading zeros apart.                                         *)
(***************************************************************************)
\* The characters of the input from cursor a up to cursor b, blanks left out.
Letters(a, b) == SelectSeq(SubSeq(input, a + 1, b), LAMBDA c : c # " ")

RECURSIVE BitsSpelled(_)
BitsSpelled(letters) ==
    IF Len(letters) >= 4 /\ SubSeq(letters, 1, 4) = ZERO
    THEN <<0>> \o BitsSpelled(SubSeq(letters, 5, Len(letters)))
    ELSE IF Len(letters) >= 3 /\ SubSeq(letters, 1, 3) = ONE
    THEN <<1>> \o BitsSpelled(SubSeq(letters, 4, Len(letters)))
    ELSE <<>>

RECURSIVE Significant(_)
Significant(bits) ==
    IF bits # <<>> /\ bits[1] = 0 THEN Significant(Tail(bits)) ELSE bits

RECURSIVE Digits(_)
Digits(n) == IF n = 0 THEN <<>> ELSE Digits(n \div 2) \o <<n % 2>>

BitsAreBinaryValue ==
    (pc = "scan" /\ scanned.call = "parse_bits") =>
        LET s == BitsSpelled(Letters(scanned.from, position)) IN
        /\ s # <<>>
        /\ scanned.result >= 0
        /\ Digits(scanned.result) = Significant(s)

(***************************************************************************)
(* C18. check(symbol) is a total lookahead that consumes nothing: at every *)
(* cursor of every input and for every keyword it returns true or false    *)
(* without reading a character outside the input and leaves the cursor     *)
(* where it was, so that no input ends the scanner in another way than a   *)
(* parse error.                                                            *)
(***************************************************************************)
CheckIsTotalLookahead ==
    /\ pc = "scan" =>
           \A symbol \in Symbols : check(symbol, input, position) \in {"true", "false"}
    /\ scanned.call = "check" => position = scanned.from
    /\ pc # "terminated"

====
